---- MODULE Spec2Model ----
(***************************************************************************)
(* Model of shellfish.go: the dispatcher of the Shellfish toolchain.       *)
(*                                                                         *)
(* Strings of the program (command line tokens, the text on standard       *)
(* input and output, the MemoDir path) are sequences of one-character      *)
(* strings, so that suffix tests, prefix tests, line splitting and path    *)
(* cleaning are computed as the code computes them.                        *)
(*                                                                         *)
(* Five specifications share the variables:                                *)
(*   SpecResolve  getGlobalConfig/getConfig applied to argument lists      *)
(*   SpecMemo     a sequence of checkMemoDir calls on one file system      *)
(*   Spec         main(), step by step, along a pipeline of invocations    *)
(*   SpecBackend  initCatalogs/initHalos applied to modes and type tags    *)
(*   SpecRace     two invocations inside checkMemoDir at the same time     *)
(***************************************************************************)
EXTENDS Integers, Sequences, FiniteSets, TLC

VARIABLES
    pc,        \* position of main() in the current invocation
    args,      \* os.Args of the current invocation
    env,       \* value of $SHELLFISH_GLOBAL_CONFIG ("" = << >> when unset)
    files,     \* the configuration files on disk: name -> content
    memo,      \* the memo.config files on disk: cleaned path -> content
    stdin,     \* text on standard input
    lines,     \* main's lines
    stdout,    \* text written to standard output so far
    exit,      \* exit status (NoExit while running)
    flags,     \* main's flags
    mconf,     \* main's (config, ok) from getConfig
    gres,      \* main's (gConfigName, gConfig, err) from getGlobalConfig
    trace,     \* steps of main() executed by the current invocation, in order
    stage,     \* number of the current invocation in the pipeline
    upstream,  \* TRUE when an earlier stage of the pipeline exited non-zero
    call,      \* SpecMemo: the latest two calls of checkMemoDir, newest last;
               \* SpecRace: the two invocations inside the guard;
               \* SpecBackend: the outcomes of initCatalogs and initHalos
    memo0      \* memo when the current invocation started

vars == <<pc, args, env, files, memo, stdin, lines, stdout, exit, flags,
          mconf, gres, trace, stage, upstream, call, memo0>>

-----------------------------------------------------------------------------
(* Bounds of the model.                                                    *)

MaxArgs == 4
MaxCalls == 3
MaxStages == 2

-----------------------------------------------------------------------------
(* Strings.                                                                *)

Empty == << >>
DotConfig == <<".", "c", "o", "n", "f", "i", "g">>
Shellfish == <<"S", "h", "e", "l", "l", "f", "i", "s", "h">>
Terminating == Shellfish \o <<" ", "t", "e", "r", "m", "i", "n", "a", "t", "i", "n", "g", ".">>
NL == "\n"

\* length of ".config" in isConfig
SuffixLen == 7
\* length of "Shellfish" in main's failure-marker test
MarkerLen == 9

\* the last n elements of s, for n <= Len(s)
Last(s, n) == SubSeq(s, Len(s) - n + 1, Len(s))

\* strings.Split(s, sep) for a one-character separator: the pieces between
\* the separators, empty pieces included
RECURSIVE SplitFrom(_, _, _, _)
SplitFrom(s, sep, i, cur) ==
    IF i > Len(s) THEN <<cur>>
    ELSE IF s[i] = sep THEN <<cur>> \o SplitFrom(s, sep, i + 1, Empty)
    ELSE SplitFrom(s, sep, i + 1, Append(cur, s[i]))

Split(s, sep) == SplitFrom(s, sep, 1, Empty)

-----------------------------------------------------------------------------
(* The argument classifier.                                                *)

isConfig(s) == Len(s) >= SuffixLen /\ Last(s, SuffixLen) = DotConfig

RECURSIVE configNumFrom(_, _)
configNumFrom(a, i) ==
    IF i >= 1 /\ isConfig(a[i]) THEN 1 + configNumFrom(a, i - 1) ELSE 0

configNumAnywhere(a) == Cardinality({i \in 1..Len(a) : isConfig(a[i])})

\* configNum: scan from the last token backward, stop at the first token that
\* is not a configuration file
configNum(a) == configNumFrom(a, Len(a))

\* getFlags: args[1 : len(args)-1-configNum(args)] (0-based, end exclusive);
\* a slice whose bounds are out of order is a run-time panic
getFlagsPanics(a) == Len(a) - 1 - configNum(a) < 1

getFlags(a) == SubSeq(a, 2, Len(a) - 1 - configNum(a))

-----------------------------------------------------------------------------
(* GlobalConfig and the configuration files.                               *)

BaseConfig ==
    [Version |-> "1.0", SnapshotFormat |-> "snap%d", SnapshotType |-> "gotetra",
     HaloDir |-> "halos", HaloType |-> "Text",
     TreeDir |-> "trees", TreeType |-> "consistent-trees",
     MemoDir |-> <<"m">>,
     BlockMins |-> <<0, 0>>, BlockMaxes |-> <<7, 7>>,
     SnapMin |-> 0, SnapMax |-> 100,
     SnapshotFormatMeanings |-> <<"Snapshot">>,
     HaloPositionUnits |-> "Mpc/h", HaloMassUnits |-> "Msun/h",
     HaloValueColumns |-> <<3>>, HaloValueNames |-> <<"Vmax">>,
     Endianness |-> "LittleEndian", Threads |-> 1]

FieldNames == DOMAIN BaseConfig

\* other values of each field
Alt ==
    [Version |-> {"1.1"}, SnapshotFormat |-> {"s%d"},
     SnapshotType |-> {"LGadget-2", "ARTIO"},
     HaloDir |-> {"halos2"}, HaloType |-> {"nil"},
     TreeDir |-> {"trees2"}, TreeType |-> {"nil"},
     MemoDir |-> {<<"m", "/">>, <<".", "/", "m">>, <<"n">>},
     BlockMins |-> {<<0, 1>>, <<0>>}, BlockMaxes |-> {<<7, 8>>, <<7, 7, 7>>},
     SnapMin |-> {1}, SnapMax |-> {99},
     SnapshotFormatMeanings |-> {<<"Block">>, <<"Snapshot", "Block">>},
     HaloPositionUnits |-> {"kpc/h"}, HaloMassUnits |-> {"Msun"},
     HaloValueColumns |-> {<<4>>, << >>}, HaloValueNames |-> {<<"Rs">>, << >>},
     Endianness |-> {"BigEndian"}, Threads |-> {8}]

\* the configurations that differ from BaseConfig in at most one field
Variants ==
    {BaseConfig} \cup
    UNION {{[BaseConfig EXCEPT ![f] = v] : v \in Alt[f]} : f \in FieldNames}

\* the fields in which two configurations differ
Diff(c, d) == {f \in FieldNames : c[f] # d[f]}

\* A file is its kind, its layout (comments and spacing, which parsing drops)
\* and the variables it sets.
NoFile == [kind |-> "none", layout |-> 0, cfg |-> BaseConfig]
ConfigFile(c, layout) == [kind |-> "config", layout |-> layout, cfg |-> c]
Garbage == [kind |-> "garbage", layout |-> 0, cfg |-> BaseConfig]

SnapshotTypes == {"gotetra", "LGadget-2", "ARTIO"}
HaloTypes == {"nil", "Text"}
TreeTypes == {"nil", "consistent-trees"}

\* GlobalConfig.ReadConfig on the content of a file: the variables it sets, or
\* an error for a missing file, a parse failure or an unknown backend-type tag
ReadContent(f) ==
    IF f.kind = "config"
       /\ f.cfg.SnapshotType \in SnapshotTypes
       /\ f.cfg.HaloType \in HaloTypes
       /\ f.cfg.TreeType \in TreeTypes
    THEN [err |-> "", cfg |-> f.cfg]
    ELSE [err |-> "load", cfg |-> BaseConfig]

FileAt(fs, name) == IF name \in DOMAIN fs THEN fs[name] ELSE NoFile

ReadConfig(fs, name) == ReadContent(FileAt(fs, name))

-----------------------------------------------------------------------------
(* The configuration resolvers.                                            *)

GRes(name, isNil, cfg, err) ==
    [name |-> name, isNil |-> isNil, config |-> cfg, err |-> err]

\* the tail of getGlobalConfig: read the chosen file
LoadGlobal(fs, name) ==
    LET r == ReadConfig(fs, name) IN
    IF r.err # "" THEN GRes(Empty, TRUE, BaseConfig, r.err)
    ELSE GRes(name, FALSE, r.cfg, "")

getGlobalConfigCapped(a, e, fs) ==
    IF e # Empty
    THEN IF configNum(a) > 1 THEN GRes(Empty, TRUE, BaseConfig, "ambiguous")
         ELSE LoadGlobal(fs, e)
    ELSE IF configNum(a) = 0 THEN GRes(Empty, TRUE, BaseConfig, "noconfig")
    ELSE IF configNum(a) = 1 THEN LoadGlobal(fs, a[Len(a)])
    ELSE LoadGlobal(fs, a[Len(a) - 1])

getGlobalConfigNoAmbiguity(a, e, fs) ==
    IF e # Empty
    THEN LoadGlobal(fs, e)
    ELSE IF configNum(a) = 0 THEN GRes(Empty, TRUE, BaseConfig, "noconfig")
    ELSE IF configNum(a) = 1 THEN LoadGlobal(fs, a[Len(a)])
    ELSE IF configNum(a) = 2 THEN LoadGlobal(fs, a[Len(a) - 1])
    ELSE GRes(Empty, TRUE, BaseConfig, "toomany")

getGlobalConfig(a, e, fs) ==
    IF e # Empty
    THEN IF configNum(a) > 1 THEN GRes(Empty, TRUE, BaseConfig, "ambiguous")
         ELSE LoadGlobal(fs, e)
    ELSE IF configNum(a) = 0 THEN GRes(Empty, TRUE, BaseConfig, "noconfig")
    ELSE IF configNum(a) = 1 THEN LoadGlobal(fs, a[Len(a)])
    ELSE IF configNum(a) = 2 THEN LoadGlobal(fs, a[Len(a) - 1])
    ELSE GRes(Empty, TRUE, BaseConfig, "toomany")

getConfig(a, e) ==
    IF e # Empty /\ configNum(a) = 1 THEN [name |-> a[Len(a)], ok |-> TRUE]
    ELSE IF e = Empty /\ configNum(a) = 2 THEN [name |-> a[Len(a)], ok |-> TRUE]
    ELSE [name |-> Empty, ok |-> FALSE]

-----------------------------------------------------------------------------
(* The memoization guard.                                                  *)

MemoConfig == <<"m", "e", "m", "o">> \o DotConfig
Slash == "/"
Dot == <<".">>
DotDot == <<".", ".">>

\* path.Clean on the components of a path: "" and "." are dropped, ".." takes
\* back the component before it (or is dropped at the root, or kept)
RECURSIVE CleanFrom(_, _, _, _)
CleanFrom(comps, i, rooted, out) ==
    IF i > Len(comps) THEN out
    ELSE IF comps[i] = Empty \/ comps[i] = Dot
         THEN CleanFrom(comps, i + 1, rooted, out)
    ELSE IF comps[i] = DotDot
         THEN IF Len(out) > 0 /\ out[Len(out)] # DotDot
              THEN CleanFrom(comps, i + 1, rooted, SubSeq(out, 1, Len(out) - 1))
              ELSE IF rooted THEN CleanFrom(comps, i + 1, rooted, out)
              ELSE CleanFrom(comps, i + 1, rooted, Append(out, DotDot))
    ELSE CleanFrom(comps, i + 1, rooted, Append(out, comps[i]))

\* path.Clean(p), as (is the path rooted, its components)
Clean(p) ==
    LET rooted == Len(p) > 0 /\ p[1] = Slash IN
    [rooted |-> rooted, comps |-> CleanFrom(Split(p, Slash), 1, rooted, << >>)]

\* path.Join(memoDir, "memo.config"): empty elements are ignored, the rest are
\* joined with "/" and cleaned
MemoPath(memoDir) ==
    IF memoDir = Empty THEN Clean(MemoConfig)
    ELSE Clean(memoDir \o <<Slash>> \o MemoConfig)

int64sEqual(xs, ys) ==
    Len(xs) = Len(ys) /\ \A i \in 1..Len(xs) : xs[i] = ys[i]

stringsEqual(xs, ys) ==
    Len(xs) = Len(ys) /\ \A i \in 1..Len(xs) : xs[i] = ys[i]

configEqual(m, c) ==
    /\ c.Version = m.Version
    /\ c.SnapshotFormat = m.SnapshotFormat
    /\ c.SnapshotType = m.SnapshotType
    /\ c.HaloDir = m.HaloDir
    /\ c.HaloType = m.HaloType
    /\ c.TreeDir = m.TreeDir
    /\ c.MemoDir = m.MemoDir
    /\ int64sEqual(c.BlockMins, m.BlockMins)
    /\ int64sEqual(c.BlockMaxes, m.BlockMaxes)
    /\ c.SnapMin = m.SnapMin
    /\ c.SnapMax = m.SnapMax
    /\ stringsEqual(c.SnapshotFormatMeanings, m.SnapshotFormatMeanings)
    /\ c.HaloPositionUnits = m.HaloPositionUnits
    /\ c.HaloMassUnits = m.HaloMassUnits
    /\ int64sEqual(c.HaloValueColumns, m.HaloValueColumns)
    /\ stringsEqual(c.HaloValueNames, m.HaloValueNames)
    /\ c.Endianness = m.Endianness

\* the file system with content written at path p
WriteAt(mm, p, content) ==
    [q \in DOMAIN mm \cup {p} |-> IF q = p THEN content ELSE mm[q]]

\* a file that os.Create has made and io.Copy has not filled
Truncated == [kind |-> "truncated", layout |-> 0, cfg |-> BaseConfig]

\* the steps of copyFile at which the operating system may report an error
Faults == {"none", "open", "create", "copy", "sync"}

MemoRes(err, mm, seeding) == [err |-> err, memo |-> mm, seeding |-> seeding]

copyFileParsed(fs, mm, dst, src, fault) ==
    IF FileAt(fs, src).kind = "none" \/ fault = "open" THEN MemoRes("open", mm, TRUE)
    ELSE IF fault = "create" THEN MemoRes("create", mm, TRUE)
    ELSE IF fault = "copy" THEN MemoRes("copy", WriteAt(mm, dst, Truncated), TRUE)
    ELSE MemoRes(IF fault = "sync" THEN "sync" ELSE "",
                 WriteAt(mm, dst, ConfigFile(FileAt(fs, src).cfg, 0)), TRUE)

copyFileCreatesFirst(fs, mm, dst, src, fault) ==
    IF fault = "create" THEN MemoRes("create", mm, TRUE)
    ELSE IF FileAt(fs, src).kind = "none" \/ fault = "open"
    THEN MemoRes("open", WriteAt(mm, dst, Truncated), TRUE)
    ELSE IF fault = "copy" THEN MemoRes("copy", WriteAt(mm, dst, Truncated), TRUE)
    ELSE MemoRes(IF fault = "sync" THEN "sync" ELSE "",
                 WriteAt(mm, dst, FileAt(fs, src)), TRUE)

\* copyFile(dst, src): open src, create (and truncate) dst, copy, sync
copyFile(fs, mm, dst, src, fault) ==
    IF FileAt(fs, src).kind = "none" \/ fault = "open" THEN MemoRes("open", mm, TRUE)
    ELSE IF fault = "create" THEN MemoRes("create", mm, TRUE)
    ELSE IF fault = "copy" THEN MemoRes("copy", WriteAt(mm, dst, Truncated), TRUE)
    ELSE MemoRes(IF fault = "sync" THEN "sync" ELSE "",
                 WriteAt(mm, dst, FileAt(fs, src)), TRUE)

compareMemoLenient(fs, mm, memoDir, configFile) ==
    LET config == ReadConfig(fs, configFile)
        memoConfig == ReadContent(mm[MemoPath(memoDir)])
    IN  IF config.err # "" THEN MemoRes(config.err, mm, FALSE)
        ELSE IF memoConfig.err # "" THEN MemoRes(memoConfig.err, mm, FALSE)
        ELSE MemoRes("", mm, FALSE)

\* the comparing branch of checkMemoDir
compareMemo(fs, mm, memoDir, configFile) ==
    LET config == ReadConfig(fs, configFile)
        memoConfig == ReadContent(mm[MemoPath(memoDir)])
    IN  IF config.err # "" THEN MemoRes(config.err, mm, FALSE)
        ELSE IF memoConfig.err # "" THEN MemoRes(memoConfig.err, mm, FALSE)
        ELSE IF ~configEqual(config.cfg, memoConfig.cfg) THEN MemoRes("mismatch", mm, FALSE)
        ELSE MemoRes("", mm, FALSE)

checkMemoDirReseeds(fs, mm, memoDir, configFile, fault) ==
    IF MemoPath(memoDir) \notin DOMAIN mm
    THEN copyFile(fs, mm, MemoPath(memoDir), configFile, fault)
    ELSE IF compareMemo(fs, mm, memoDir, configFile).err = "mismatch"
         THEN [copyFile(fs, mm, MemoPath(memoDir), configFile, fault)
                 EXCEPT !.err = "mismatch", !.seeding = FALSE]
         ELSE compareMemo(fs, mm, memoDir, configFile)

\* checkMemoDir(memoDir, configFile): seed memo.config when os.Stat does not
\* find it, compare with it otherwise
checkMemoDir(fs, mm, memoDir, configFile, fault) ==
    IF MemoPath(memoDir) \notin DOMAIN mm
    THEN copyFile(fs, mm, MemoPath(memoDir), configFile, fault)
    ELSE compareMemo(fs, mm, memoDir, configFile)

-----------------------------------------------------------------------------
(* Standard input and output, the modes and the backends.                  *)

stdinLinesKeepsLast(text) == Split(text, NL)

\* stdinLines: the text split at "\n", without the final piece when it is empty
stdinLines(text) ==
    LET ls == Split(text, NL) IN
    IF ls[Len(ls)] = Empty THEN SubSeq(ls, 1, Len(ls) - 1) ELSE ls

\* fmt.Println(line)
Println(out, line) == out \o line \o <<NL>>

RECURSIVE PrintAll(_, _, _)
PrintAll(out, ls, i) ==
    IF i > Len(ls) THEN out ELSE PrintAll(Println(out, ls[i]), ls, i + 1)

\* lines[0][:9] == "Shellfish"
IsMarker(line) == Len(line) >= MarkerLen /\ SubSeq(line, 1, MarkerLen) = Shellfish

ModeId == <<"i", "d">>
ModeTree == <<"t", "r", "e", "e">>
ModeCoord == <<"c", "o", "o", "r", "d">>
ModeProf == <<"p", "r", "o", "f">>
ModeShell == <<"s", "h", "e", "l", "l">>
ModeStats == <<"s", "t", "a", "t", "s">>
Help == <<"h", "e", "l", "p">>
Version == <<"v", "e", "r", "s", "i", "o", "n">>
Hello == <<"h", "e", "l", "l", "o">>

\* cmd.ModeNames, the registry of the modes
ModeNames == {ModeId, ModeTree, ModeCoord, ModeProf, ModeShell, ModeStats}
\* the modes for which main reads standard input
StdinModes == {ModeTree, ModeCoord, ModeProf, ModeShell, ModeStats}

\* initHalos up to the call of the backend: "nil" (nothing to initialise),
\* "error", "InitTextHalo" (the backend decides) or "panic"
initHalos(mode, gConfig) ==
    IF mode \in {ModeShell, ModeStats, ModeProf} THEN "nil"
    ELSE IF gConfig.HaloType = "nil" THEN "error"
    ELSE IF gConfig.HaloType = "Text" THEN "InitTextHalo"
    ELSE IF gConfig.TreeType = "nil" THEN "error"
    ELSE "panic"

\* initCatalogs up to the call of the backend: "Init" (the backend decides)
\* or "panic"
initCatalogs(gConfig) ==
    IF gConfig.SnapshotType \in {"gotetra", "LGadget-2", "ARTIO"} THEN "Init"
    ELSE "panic"

-----------------------------------------------------------------------------
(* The tokens, files and initial values of the model.                      *)

GName == <<"g">> \o DotConfig
HName == <<"h">> \o DotConfig
EName == <<"e">> \o DotConfig
MName == <<"m">> \o DotConfig
XName == <<"x">> \o DotConfig
UName == <<"u">> \o DotConfig
FlagF == <<"-", "-", "F">>
Two == <<"2">>
Config6 == <<"c", "o", "n", "f", "i", "g">>

\* g.config, h.config and e.config are global configuration files; m.config
\* is a mode configuration file, which does not load as a GlobalConfig;
\* x.config and .config do not exist
HConfig == [BaseConfig EXCEPT !.HaloType = "nil"]
EConfig == [BaseConfig EXCEPT !.Threads = 8]
\* a global configuration whose snapshot backend-type tag is not a known one
UConfig == [BaseConfig EXCEPT !.SnapshotType = "foo"]

DiskFiles ==
    (GName :> ConfigFile(BaseConfig, 0)) @@ (HName :> ConfigFile(HConfig, 0)) @@
    (EName :> ConfigFile(EConfig, 1)) @@ (MName :> Garbage) @@
    (UName :> ConfigFile(UConfig, 0))

NoMemo == [p \in {} |-> NoFile]
\* no exit status yet
NoExit == 0 - 1
NoMode == [name |-> Empty, ok |-> FALSE]
NoGlobal == GRes(Empty, TRUE, BaseConfig, "")

\* the sequences over S of length at most n
SeqsUpTo(S, n) == UNION {[1..k -> S] : k \in 0..n}

-----------------------------------------------------------------------------
(* SpecResolve: the resolvers applied to an argument list.                 *)

ResolveTokens == {GName, MName, DotConfig, Config6, FlagF}
ResolveEnvs == {Empty, EName, XName}

InitResolve ==
    /\ pc = "resolve_in"
    /\ args \in SeqsUpTo(ResolveTokens, MaxArgs)
    /\ env \in ResolveEnvs
    /\ files = DiskFiles
    /\ memo = NoMemo /\ memo0 = NoMemo
    /\ stdin = Empty /\ lines = << >> /\ stdout = Empty /\ exit = NoExit
    /\ flags = << >> /\ mconf = NoMode /\ gres = NoGlobal
    /\ trace = << >> /\ stage = 0 /\ upstream = FALSE /\ call = << >>

\* config, ok := getConfig(args); gConfigName, gConfig, err := getGlobalConfig(args)
ResolveArgs ==
    /\ pc = "resolve_in"
    /\ mconf' = getConfig(args, env)
    /\ gres' = getGlobalConfig(args, env, files)
    /\ pc' = "resolve_out"
    /\ UNCHANGED <<args, env, files, memo, stdin, lines, stdout, exit, flags,
                   trace, stage, upstream, call, memo0>>

NextResolve == ResolveArgs

SpecResolve == InitResolve /\ [][NextResolve]_vars

\* s ends with ".config"
EndsWithDotConfig(s) == \E k \in 0..Len(s) : SubSeq(s, k + 1, Len(s)) = DotConfig

\* the number of trailing '.config' tokens of a: the length of the longest
\* run of tokens at the end of a that all end with ".config"
TrailingConfigs(a) ==
    CHOOSE n \in 0..Len(a) :
        /\ \A i \in (Len(a) - n + 1)..Len(a) : EndsWithDotConfig(a[i])
        /\ n < Len(a) => ~EndsWithDotConfig(a[Len(a) - n])

Loads(name) == ReadConfig(files, name).err = ""

\* C1: with $SHELLFISH_GLOBAL_CONFIG unset, resolution succeeds only for
\* exactly 1 or 2 trailing '.config' tokens. For 1 the last token is the
\* global configuration and no mode configuration is reported; for 2 the
\* second-to-last token is the global configuration and the last token the
\* mode configuration; 0 and 3 or more return an error and no configuration.
C1_ResolveUnset ==
    (pc = "resolve_out" /\ env = Empty) =>
        LET n == TrailingConfigs(args)
            last == args[Len(args)]
        IN  /\ gres.err = "" => n \in {1, 2}
            /\ n = 1 => /\ gres.err = "" <=> Loads(last)
                        /\ gres.err = "" =>
                              gres = GRes(last, FALSE, ReadConfig(files, last).cfg, "")
                        /\ mconf = NoMode
            /\ n = 2 => /\ gres.err = "" <=> Loads(args[Len(args) - 1])
                        /\ gres.err = "" =>
                              /\ gres.name = args[Len(args) - 1]
                              /\ ~gres.isNil
                              /\ gres.config = ReadConfig(files, gres.name).cfg
                        /\ mconf = [name |-> last, ok |-> TRUE]
            /\ n = 0 => gres = GRes(Empty, TRUE, BaseConfig, "noconfig") /\ mconf = NoMode
            /\ n >= 3 => gres = GRes(Empty, TRUE, BaseConfig, "toomany") /\ mconf = NoMode

C1_Witness ==
    /\ pc = "resolve_out" /\ env = Empty
    /\ args = <<FlagF, Config6, GName, MName>>
    /\ gres.err = "" /\ gres.name = GName /\ mconf.ok

\* C2: with $SHELLFISH_GLOBAL_CONFIG set, two or more trailing '.config'
\* tokens fail with the ambiguity error; with zero or one the resolver takes
\* the file the variable names as the global configuration (it succeeds
\* exactly when that file loads, and no other file is tried) and the one
\* positional file, if present, is the mode configuration.
C2_ResolveSet ==
    (pc = "resolve_out" /\ env # Empty) =>
        LET n == TrailingConfigs(args) IN
        /\ n >= 2 => gres = GRes(Empty, TRUE, BaseConfig, "ambiguous")
        /\ n <= 1 => /\ gres.err = "" <=> Loads(env)
                     /\ gres.err # "" => gres = GRes(Empty, TRUE, BaseConfig, "load")
                     /\ gres.err = "" =>
                           /\ gres.name = env /\ ~gres.isNil
                           /\ gres.config = ReadConfig(files, env).cfg
        /\ n = 1 => mconf = [name |-> args[Len(args)], ok |-> TRUE]
        /\ n = 0 => mconf = NoMode

C2_Witness ==
    /\ pc = "resolve_out" /\ env = EName
    /\ args = <<Config6, FlagF, GName>>
    /\ gres.err = "" /\ gres.name = EName /\ mconf = [name |-> GName, ok |-> TRUE]

-----------------------------------------------------------------------------
(* SpecMemo: a sequence of checkMemoDir calls, each for one of two global  *)
(* configuration files, on a file system without snapshots at first.       *)

MemoNames == {GName, HName}

InitMemo ==
    /\ pc = "memo_calls"
    /\ \E v \in Variants :
          files = (GName :> ConfigFile(BaseConfig, 0)) @@ (HName :> ConfigFile(v, 1))
    /\ memo = NoMemo /\ memo0 = NoMemo /\ call = << >>
    /\ args = << >> /\ env = Empty
    /\ stdin = Empty /\ lines = << >> /\ stdout = Empty /\ exit = NoExit
    /\ flags = << >> /\ mconf = NoMode /\ gres = NoGlobal
    /\ trace = << >> /\ stage = 0 /\ upstream = FALSE

\* err = checkMemoDir(gConfig.MemoDir, gConfigName), for a file that loaded
MemoCall(name, fault) ==
    /\ pc = "memo_calls"
    /\ stage < MaxCalls
    /\ ReadConfig(files, name).err = ""
    /\ LET r == checkMemoDir(files, memo, ReadConfig(files, name).cfg.MemoDir, name, fault)
           c == [name |-> name, fault |-> fault, seeding |-> r.seeding, err |-> r.err]
       IN  /\ memo' = r.memo
           /\ memo0' = memo
           /\ call' = IF Len(call) < 2 THEN Append(call, c) ELSE <<call[2], c>>
    /\ stage' = stage + 1
    /\ UNCHANGED <<pc, args, env, files, stdin, lines, stdout, exit, flags,
                   mconf, gres, trace, upstream>>

NextMemo == \E name \in MemoNames, fault \in Faults : MemoCall(name, fault)

SpecMemo == InitMemo /\ [][NextMemo]_vars

\* the latest call, the one before it, the configuration of the latest call
\* and the snapshot path it resolves to
LastCall == call[Len(call)]
PrevCall == call[Len(call) - 1]
LastConfig == files[LastCall.name].cfg
LastPath == MemoPath(LastConfig.MemoDir)

\* the latest call found the snapshot that was seeded from the file `name`
ComparedWithSeedOf(name) ==
    /\ Len(call) >= 1
    /\ LastPath \in DOMAIN memo0
    /\ memo0[LastPath] = files[name]

\* the cache-relevant fields the specification lists
CacheRelevant ==
    {"SnapshotType", "HaloType", "TreeType", "HaloDir", "TreeDir",
     "SnapshotFormat", "SnapshotFormatMeanings",
     "HaloPositionUnits", "HaloMassUnits", "HaloValueColumns", "HaloValueNames",
     "BlockMins", "BlockMaxes", "SnapMin", "SnapMax", "Endianness"}

\* the fields the specification excludes from the cache-validity equality
Excluded == {"Threads", "MemoDir"}

\* C3: after a directory was seeded with configuration C, the guard run with
\* a configuration that differs from C in exactly one cache-relevant field
\* (a backend type - snapshot, halo or tree -, a directory, format, units,
\* columns, ranges, endianness) fails with the consistency error.
C3_Original ==
    \A n \in MemoNames :
        (/\ ComparedWithSeedOf(n)
         /\ Cardinality(Diff(files[n].cfg, LastConfig)) = 1
         /\ Diff(files[n].cfg, LastConfig) \subseteq CacheRelevant)
        => LastCall.err = "mismatch"

\* C4: two global configurations that resolve to the same memoization
\* directory and differ only in excluded fields (the thread count, the text
\* of the memoization directory field) pass the guard against a snapshot
\* seeded from the other.
C4_Original ==
    \A n \in MemoNames :
        (/\ ComparedWithSeedOf(n)
         /\ Diff(files[n].cfg, LastConfig) \subseteq Excluded)
        => LastCall.err = ""

\* C5: the guard run on a directory without snapshot seeds the snapshot as a
\* verbatim copy of the configuration file and succeeds (when the operating
\* system reports no error to copyFile); run again at once with the same
\* configuration it succeeds and writes nothing.
C5_Idempotent ==
    /\ (Len(call) >= 1 /\ LastPath \notin DOMAIN memo0 /\ LastCall.fault = "none") =>
          /\ LastCall.seeding /\ LastCall.err = ""
          /\ DOMAIN memo = DOMAIN memo0 \cup {LastPath}
          /\ memo[LastPath] = files[LastCall.name]
          /\ \A q \in DOMAIN memo0 : memo[q] = memo0[q]
    /\ (Len(call) >= 2 /\ PrevCall.seeding /\ PrevCall.err = ""
           /\ LastCall.name = PrevCall.name) =>
          /\ ~LastCall.seeding /\ LastCall.err = ""
          /\ memo = memo0

C5_Witness ==
    /\ Len(call) >= 2
    /\ PrevCall = [name |-> HName, fault |-> "none", seeding |-> TRUE, err |-> ""]
    /\ LastCall.name = HName /\ LastCall.err = ""
    /\ memo = memo0 /\ memo[LastPath] = files[HName]

\* C6: a snapshot that exists is never written: whatever configuration the
\* next call uses and whether it succeeds or fails, every memo.config that
\* existed before the call exists after it with the same content.
C6_SnapshotKept ==
    \A q \in DOMAIN memo0 : q \in DOMAIN memo /\ memo[q] = memo0[q]

C6_Witness ==
    /\ Len(call) >= 2
    /\ PrevCall.seeding /\ PrevCall.err = ""
    /\ LastCall.err = "mismatch" /\ LastCall.name # PrevCall.name
    /\ memo = memo0 /\ memo[LastPath] = files[PrevCall.name]

-----------------------------------------------------------------------------
(* Spec: main(), step by step, for each stage of a pipeline                *)
(*    shellfish ... | shellfish <mode> ... | ...                           *)
(* The stages run one after the other: each reads its standard input to    *)
(* the end before it does anything else.                                   *)

Prog == <<"s", "h", "e", "l", "l", "f", "i", "s", "h">>
Foo == <<"f", "o", "o">>
Row == <<"r">>
\* the texts of the help mode: modeDescriptions, a help string, "I don't
\* recognize the help target", "The help mode can only take a single argument."
HelpText == <<"T", "h", "e", " ", "b", "e", "s", "t">>
TargetText == <<"T", "y", "p", "e">>
NoTargetText == <<"I", " ", "d", "o", "n", "'", "t">>
OneTargetText == <<"T", "h", "e", " ", "h", "e", "l", "p">>
\* the keys of helpStrings
HelpTargets ==
    ModeNames \cup {Config6} \cup {m \o DotConfig : m \in ModeNames}
VersionText == Shellfish \o <<" ", "v", "e", "r", "s", "i", "o", "n", " ", "1">>
HelloText == <<"H", "e", "l", "l", "o">>

MainModes == ModeNames \cup {Help, Version, Hello, Foo}
MainFlags == {<< >>, <<FlagF, Two>>}
MainTails ==
    {<< >>, <<GName>>, <<HName>>, <<UName>>, <<GName, MName>>,
     <<GName, HName, MName>>}
MainArgs ==
    {<<Prog>>, <<Prog, Help, ModeId>>, <<Prog, Help, FlagF>>} \cup
    {<<Prog, m>> \o f \o t : m \in MainModes, f \in MainFlags, t \in MainTails}
MainEnvs == {Empty, EName}

\* the texts the first stage may find on standard input
StdinTexts ==
    {Empty, <<NL>>, Row \o <<NL>>, Row \o <<NL>> \o Row,
     Terminating \o <<NL>>, Shellfish,
     <<"S", "h", "e", "l", "l", "f", "i", "s", NL>>,
     Shellfish \o <<NL>> \o Row \o <<NL>>}

\* the output lines mode.Run may return
Outs == {<< >>, <<Row>>, <<Row, Row>>}

Step(name, ok) == [step |-> name, ok |-> ok]

Init ==
    /\ pc = "dispatch"
    /\ args \in MainArgs
    /\ env \in MainEnvs
    /\ stdin \in StdinTexts
    /\ files = DiskFiles
    /\ memo = NoMemo /\ memo0 = NoMemo
    /\ lines = << >> /\ stdout = Empty /\ exit = NoExit
    /\ flags = << >> /\ mconf = NoMode /\ gres = NoGlobal
    /\ trace = << >> /\ stage = 1 /\ upstream = FALSE /\ call = << >>

\* os.Exit(status) after printing text
Exit(text, status) ==
    /\ stdout' = text
    /\ exit' = status
    /\ pc' = "done"

FatalExitsTwo == Exit(Println(stdout, Terminating), 2)

\* the error path: fmt.Println("Shellfish terminating."); os.Exit(1)
Fatal == Exit(Println(stdout, Terminating), 1)

\* main, lines 104-147: the mode name
Dispatch ==
    /\ pc = "dispatch"
    /\ IF Len(args) <= 1 THEN Exit(stdout, 1)
       ELSE IF args[2] = Help
            THEN Exit(IF Len(args) - 2 = 0 THEN Println(stdout, HelpText)
                      ELSE IF Len(args) - 2 = 1
                           THEN IF args[3] \in HelpTargets
                                THEN Println(stdout, TargetText)
                                ELSE Println(stdout, NoTargetText)
                      ELSE IF Len(args) - 2 = 2 THEN Println(stdout, OneTargetText)
                      ELSE stdout, 0)
       ELSE IF args[2] = Version THEN Exit(Println(stdout, VersionText), 0)
       ELSE IF args[2] = Hello THEN Exit(Println(stdout, HelloText), 0)
       ELSE IF args[2] \notin ModeNames THEN Fatal
       ELSE /\ pc' = IF args[2] \in StdinModes THEN "stdin" ELSE "resolve"
            /\ UNCHANGED <<stdout, exit>>
    /\ UNCHANGED <<args, env, files, memo, stdin, lines, flags, mconf, gres,
                   trace, stage, upstream, call, memo0>>

ReadStdinNoReturn(readErr) ==
    /\ pc = "stdin"
    /\ trace' = Append(trace, Step("stdin", ~readErr))
    /\ IF readErr THEN Fatal /\ UNCHANGED lines
       ELSE /\ lines' = stdinLines(stdin)
            /\ IF Len(lines') = 1 /\ IsMarker(lines'[1])
               THEN Exit(Println(stdout, lines'[1]), 1)
               ELSE pc' = "resolve" /\ UNCHANGED <<stdout, exit>>
    /\ UNCHANGED <<args, env, files, memo, stdin, flags, mconf, gres,
                   stage, upstream, call, memo0>>

\* main, lines 149-167: the stdin-consuming modes read standard input
ReadStdin(readErr) ==
    /\ pc = "stdin"
    /\ trace' = Append(trace, Step("stdin", ~readErr))
    /\ IF readErr THEN Fatal /\ UNCHANGED lines
       ELSE /\ lines' = stdinLines(stdin)
            /\ IF Len(lines') = 0 THEN Exit(stdout, 0)
               ELSE IF Len(lines') = 1 /\ IsMarker(lines'[1])
               THEN Exit(Println(stdout, lines'[1]), 1)
               ELSE pc' = "resolve" /\ UNCHANGED <<stdout, exit>>
    /\ UNCHANGED <<args, env, files, memo, stdin, flags, mconf, gres,
                   stage, upstream, call, memo0>>

\* main, lines 169-176: flags and configuration files
Resolve ==
    /\ pc = "resolve"
    /\ flags' = getFlags(args)
    /\ mconf' = getConfig(args, env)
    /\ gres' = getGlobalConfig(args, env, files)
    /\ trace' = Append(trace, Step("resolve", gres'.err = ""))
    /\ IF gres'.err # "" THEN Fatal
       ELSE pc' = "modecfg" /\ UNCHANGED <<stdout, exit>>
    /\ UNCHANGED <<args, env, files, memo, stdin, lines, stage, upstream,
                   call, memo0>>

\* main, lines 178-190: mode.ReadConfig(config) or mode.ReadConfig("")
ModeReadConfig(ok) ==
    /\ pc = "modecfg"
    /\ trace' = Append(trace, Step("modecfg", ok))
    /\ IF ~ok THEN Fatal
       ELSE pc' = "memo" /\ UNCHANGED <<stdout, exit>>
    /\ UNCHANGED <<args, env, files, memo, stdin, lines, flags, mconf, gres,
                   stage, upstream, call, memo0>>

CheckMemoNotFatal(fault) ==
    /\ pc = "memo"
    /\ LET r == checkMemoDir(files, memo, gres.config.MemoDir, gres.name, fault)
       IN  /\ memo' = r.memo
           /\ trace' = Append(trace, Step("memo", r.err = ""))
           /\ pc' = "catalogs" /\ UNCHANGED <<stdout, exit>>
    /\ UNCHANGED <<args, env, files, stdin, lines, flags, mconf, gres,
                   stage, upstream, call, memo0>>

\* main, lines 192-196: checkMemoDir(gConfig.MemoDir, gConfigName)
CheckMemo(fault) ==
    /\ pc = "memo"
    /\ LET r == checkMemoDir(files, memo, gres.config.MemoDir, gres.name, fault)
       IN  /\ memo' = r.memo
           /\ trace' = Append(trace, Step("memo", r.err = ""))
           /\ IF r.err # "" THEN Fatal
              ELSE pc' = "catalogs" /\ UNCHANGED <<stdout, exit>>
    /\ UNCHANGED <<args, env, files, stdin, lines, flags, mconf, gres,
                   stage, upstream, call, memo0>>

\* main, lines 198-204: initCatalogs(gConfig, e); ok is the backend's answer
InitCatalogs(ok) ==
    /\ pc = "catalogs"
    /\ IF initCatalogs(gres.config) = "panic"
       THEN /\ trace' = Append(trace, Step("catalogs", FALSE))
            /\ Exit(stdout, 2)
       ELSE /\ trace' = Append(trace, Step("catalogs", ok))
            /\ IF ~ok THEN Fatal
               ELSE pc' = "halos" /\ UNCHANGED <<stdout, exit>>
    /\ UNCHANGED <<args, env, files, memo, stdin, lines, flags, mconf, gres,
                   stage, upstream, call, memo0>>

\* main, lines 206-211: initHalos(args[1], gConfig, e); ok is the backend's answer
InitHalos(ok) ==
    /\ pc = "halos"
    /\ LET h == initHalos(args[2], gres.config)
           good == h = "nil" \/ (h = "InitTextHalo" /\ ok)
       IN  /\ trace' = Append(trace, Step("halos", good))
           /\ IF h = "panic" THEN Exit(stdout, 2)
              ELSE IF ~good THEN Fatal
              ELSE pc' = "run" /\ UNCHANGED <<stdout, exit>>
    /\ UNCHANGED <<args, env, files, memo, stdin, lines, flags, mconf, gres,
                   stage, upstream, call, memo0>>

\* main, lines 213-223: mode.Run(flags, gConfig, e, lines) and its output
Run(ok, out) ==
    /\ pc = "run"
    /\ trace' = Append(trace, Step("run", ok))
    /\ IF ~ok THEN Fatal
       ELSE Exit(PrintAll(stdout, out, 1), 0)
    /\ UNCHANGED <<args, env, files, memo, stdin, lines, flags, mconf, gres,
                   stage, upstream, call, memo0>>

\* the next stage of the pipeline, a stdin-consuming mode, reads what this
\* stage wrote
Pipe(a, e) ==
    /\ pc = "done"
    /\ stage < MaxStages
    /\ a[2] \in StdinModes
    /\ args' = a /\ env' = e
    /\ stdin' = stdout
    /\ upstream' = (upstream \/ exit # 0)
    /\ stage' = stage + 1
    /\ pc' = "dispatch"
    /\ memo0' = memo
    /\ lines' = << >> /\ stdout' = Empty /\ exit' = NoExit
    /\ flags' = << >> /\ mconf' = NoMode /\ gres' = NoGlobal
    /\ trace' = << >>
    /\ UNCHANGED <<files, memo, call>>

Next ==
    \/ Dispatch
    \/ \E readErr \in BOOLEAN : ReadStdin(readErr)
    \/ Resolve
    \/ \E ok \in BOOLEAN : ModeReadConfig(ok)
    \/ \E fault \in Faults : CheckMemo(fault)
    \/ \E ok \in BOOLEAN : InitCatalogs(ok)
    \/ \E ok \in BOOLEAN : InitHalos(ok)
    \/ \E ok \in BOOLEAN, out \in Outs : Run(ok, out)
    \/ \E a \in MainArgs \ {<<Prog>>}, e \in MainEnvs : Pipe(a, e)

Spec == Init /\ [][Next]_vars

\* the steps of main after standard input was read, in the order of the code
MainSteps == <<"resolve", "modecfg", "memo", "catalogs", "halos", "run">>

\* the steps the current invocation executed, the reading of standard input
\* left out
MainTrace ==
    IF trace # << >> /\ trace[1].step = "stdin" THEN Tail(trace) ELSE trace

\* C7: mode.Run is invoked only after the global configuration was resolved,
\* the mode configuration read, the guard passed, the snapshot backend and
\* the halo backend initialised, in this order; a step that fails is the last
\* step of the invocation, which exits non-zero; no step runs twice.
C7_Order ==
    /\ Len(MainTrace) <= Len(MainSteps)
    /\ \A i \in 1..Len(MainTrace) : MainTrace[i].step = MainSteps[i]
    /\ \A i \in 1..(Len(trace) - 1) : trace[i].ok
    /\ (trace # << >> /\ ~trace[Len(trace)].ok) => (pc = "done" /\ exit \in {1, 2})

C7_Witness ==
    /\ pc = "done" /\ exit = 0
    /\ args[2] = ModeCoord
    /\ Len(MainTrace) = Len(MainSteps)
    /\ \A i \in 1..Len(trace) : trace[i].ok

\* the text is exactly one line (with or without its newline) that begins
\* with "Shellfish"
OneLine(text) ==
    IF text # Empty /\ text[Len(text)] = NL
    THEN SubSeq(text, 1, Len(text) - 1) ELSE text

IsOneMarkerLine(text) ==
    /\ \A i \in 1..Len(OneLine(text)) : OneLine(text)[i] # NL
    /\ Len(OneLine(text)) >= Len(Shellfish)
    /\ \A i \in 1..Len(Shellfish) : OneLine(text)[i] = Shellfish[i]

\* a stdin-consuming mode has read its standard input
HasReadStdin ==
    /\ Len(args) >= 2 /\ args[2] \in StdinModes
    /\ trace # << >> /\ trace[1] = Step("stdin", TRUE)

\* C8: a stdin-consuming mode whose standard input is exactly one line that
\* begins with "Shellfish" prints that line as its only output and exits
\* non-zero, without resolving configuration, running the guard,
\* initialising backends or invoking mode.Run.
C8_ShortCircuit ==
    (HasReadStdin /\ IsOneMarkerLine(stdin)) =>
        /\ pc = "done" /\ exit = 1
        /\ stdout = OneLine(stdin) \o <<NL>>
        /\ trace = <<Step("stdin", TRUE)>>
        /\ gres = NoGlobal /\ mconf = NoMode
        /\ memo = memo0

C8_Witness ==
    /\ HasReadStdin /\ stdin = Shellfish /\ args[2] = ModeTree
    /\ pc = "done" /\ exit = 1 /\ stdout = Shellfish \o <<NL>>

\* C9: in a pipeline whose later stages are stdin-consuming modes, once a
\* stage has exited non-zero every later stage exits non-zero and does not
\* invoke mode.Run.
C9_Original ==
    (pc = "done" /\ upstream) =>
        /\ exit # 0
        /\ \A i \in 1..Len(trace) : trace[i].step # "run"

\* C10: a stdin-consuming mode that reads zero lines prints nothing, exits
\* with status 0 and does nothing else: no configuration is resolved, no
\* snapshot created or modified, no backend initialised, mode.Run not invoked.
C10_EmptyInput ==
    (HasReadStdin /\ stdin = Empty) =>
        /\ pc = "done" /\ exit = 0
        /\ stdout = Empty
        /\ trace = <<Step("stdin", TRUE)>>
        /\ gres = NoGlobal /\ mconf = NoMode
        /\ memo = memo0

C10_Witness ==
    /\ HasReadStdin /\ stdin = Empty /\ args[2] = ModeShell
    /\ stage = 1 /\ pc = "done" /\ exit = 0 /\ stdout = Empty

\* main has computed flags, config and gConfig (line 169-171)
HasResolved == MainTrace # << >>

\* the tokens strictly between the mode name and the trailing run of
\* '.config' tokens
UserFlags(a) == SubSeq(a, 3, Len(a) - TrailingConfigs(a))

\* C11: for [program, mode, t1, ..., tk, c1, ..., cn] the flag sub-list that
\* getFlags returns is exactly [t1, ..., tk]: neither the mode name nor a
\* token of the trailing run is in it and none of t1..tk is left out.
C11_Original == HasResolved => flags = UserFlags(args)

One == <<"1">>

\* mode.ReadConfig: the value of field F after the mode configuration was
\* read, for a mode configuration file that sets F = 1
FileF == One

\* mode.Run: the flag parser of the stage walks the list it is given and a
\* name followed by a value overrides what the file set (last write wins)
RECURSIVE ParseF(_, _, _)
ParseF(fl, i, f) ==
    IF i + 1 > Len(fl) THEN f
    ELSE IF fl[i] = FlagF THEN ParseF(fl, i + 2, fl[i + 1])
    ELSE ParseF(fl, i + 1, f)

\* the value of F the stage runs with
RunF == ParseF(flags, 1, FileF)

\* mode.Run was invoked in the current invocation
HasRun == Len(MainTrace) = Len(MainSteps)

\* C12: an invocation with a mode configuration file that sets F = 1 and the
\* flag pair --F 2 runs its stage with F = 2: the mode configuration is read
\* before mode.Run and every flag token the user gave is delivered to it.
C12_Original ==
    (HasRun /\ mconf.ok /\ UserFlags(args) = <<FlagF, Two>>) =>
        /\ MainTrace[2] = Step("modecfg", TRUE)
        /\ \A i \in 1..Len(UserFlags(args)) :
               \E j \in 1..Len(flags) : flags[j] = UserFlags(args)[i]
        /\ RunF = Two

\* the current invocation met one of the fatal errors: no mode or an unknown
\* one, a failed step (reading standard input, configuration resolution and
\* loading, mode configuration, guard, backend activation, stage) or a
\* propagated failure marker
FatalError ==
    \/ Len(args) <= 1
    \/ args[2] \notin ModeNames \cup {Help, Version, Hello}
    \/ \E i \in 1..Len(trace) : ~trace[i].ok
    \/ (HasReadStdin /\ IsOneMarkerLine(stdin))

LastLineIs(out, line) ==
    /\ Len(out) >= Len(line) + 1
    /\ Last(out, Len(line) + 1) = line \o <<NL>>
    /\ (Len(out) > Len(line) + 1 => out[Len(out) - Len(line) - 1] = NL)

\* C14: on every path on which the process exits with a non-zero status,
\* "Shellfish terminating." is the final line written to standard output.
C14_Original ==
    (pc = "done" /\ exit # 0) => LastLineIs(stdout, Terminating)

-----------------------------------------------------------------------------
(* SpecBackend: initCatalogs and initHalos applied to every mode and every *)
(* combination of backend-type tags, the known ones, the disabling "nil"   *)
(* and one that no case of the switches matches.                           *)

Unknown == "foo"
AllSnapshotTypes == SnapshotTypes \cup {"nil", Unknown}
AllHaloTypes == HaloTypes \cup {Unknown}
AllTreeTypes == TreeTypes \cup {Unknown}

InitBackend ==
    /\ pc = "backend"
    /\ args \in {<<Prog, m>> : m \in ModeNames}
    /\ \E st \in AllSnapshotTypes, ht \in AllHaloTypes, tt \in AllTreeTypes :
           gres = GRes(GName, FALSE,
                       [BaseConfig EXCEPT !.SnapshotType = st,
                                          !.HaloType = ht,
                                          !.TreeType = tt], "")
    /\ env = Empty /\ files = DiskFiles
    /\ memo = NoMemo /\ memo0 = NoMemo
    /\ stdin = Empty /\ lines = << >> /\ stdout = Empty /\ exit = NoExit
    /\ flags = << >> /\ mconf = NoMode
    /\ trace = << >> /\ stage = 0 /\ upstream = FALSE /\ call = << >>

\* the outcome of one call: what it returned ("nil", "error") or "panic", and
\* whether the initialiser of a backend was invoked
Outcome(fn, result, backend) ==
    [fn |-> fn, result |-> result, backend |-> backend]

Called(fn) == \E i \in 1..Len(call) : call[i].fn = fn

\* initCatalogs(gConfig, e); ok is the answer of the backend's initialiser
CallInitCatalogs(ok) ==
    /\ pc = "backend"
    /\ ~Called("initCatalogs")
    /\ LET c == initCatalogs(gres.config) IN
       call' = Append(call,
                   IF c = "panic" THEN Outcome("initCatalogs", "panic", FALSE)
                   ELSE Outcome("initCatalogs",
                                IF ok THEN "nil" ELSE "error", TRUE))
    /\ UNCHANGED <<pc, args, env, files, memo, stdin, lines, stdout, exit,
                   flags, mconf, gres, trace, stage, upstream, memo0>>

\* initHalos(mode, gConfig, e); ok is the answer of e.InitTextHalo
CallInitHalos(ok) ==
    /\ pc = "backend"
    /\ ~Called("initHalos")
    /\ LET h == initHalos(args[2], gres.config) IN
       call' = Append(call,
                   IF h = "InitTextHalo"
                   THEN Outcome("initHalos", IF ok THEN "nil" ELSE "error", TRUE)
                   ELSE Outcome("initHalos", h, FALSE))
    /\ UNCHANGED <<pc, args, env, files, memo, stdin, lines, stdout, exit,
                   flags, mconf, gres, trace, stage, upstream, memo0>>

NextBackend ==
    \/ \E ok \in BOOLEAN : CallInitCatalogs(ok)
    \/ \E ok \in BOOLEAN : CallInitHalos(ok)

SpecBackend == InitBackend /\ [][NextBackend]_vars

\* C15: for the modes id, tree and coord, when the halo backend type or the
\* tree backend type of the global configuration is "nil", initHalos returns
\* an error and activates no halo backend, whatever the other type tag is.
C15_Original ==
    \A i \in 1..Len(call) :
        (/\ call[i].fn = "initHalos"
         /\ args[2] \in {ModeId, ModeTree, ModeCoord}
         /\ (gres.config.HaloType = "nil" \/ gres.config.TreeType = "nil"))
        => (call[i].result = "error" /\ ~call[i].backend)

\* C18: for every mode and every combination of snapshot, halo and tree
\* backend-type tags (known, "nil" or unknown) initCatalogs and initHalos
\* return nil or an error; no combination reaches a panic.
C18_Original == \A i \in 1..Len(call) : call[i].result # "panic"

\* the tokens of the trailing run of '.config' tokens
TrailingTokens(a) == {a[i] : i \in (Len(a) - TrailingConfigs(a) + 1)..Len(a)}

-----------------------------------------------------------------------------
(* SpecRace: two invocations run checkMemoDir at the same time on the same *)
(* memo directory. The guard takes no lock, so its system calls (os.Stat,  *)
(* os.Create, io.Copy, the reads of the comparing branch) interleave.      *)

RaceNames == <<GName, HName>>

\* invocation p of the two: the file it runs with, the system call it is at,
\* the branch os.Stat chose, what checkMemoDir returned, and whether the
\* other invocation had returned (after) or was inside its guard (overlap)
\* when this one called os.Stat
Racer(name) ==
    [name |-> name, at |-> "stat", seeding |-> FALSE, err |-> "",
     after |-> FALSE, overlap |-> FALSE]

RacePath(p) == MemoPath(files[call[p].name].cfg.MemoDir)

InitRace ==
    /\ pc = "race"
    /\ \E v \in Variants :
          /\ Diff(BaseConfig, v) # {}
          /\ Diff(BaseConfig, v) \subseteq CacheRelevant
          /\ files = (GName :> ConfigFile(BaseConfig, 0)) @@ (HName :> ConfigFile(v, 1))
    /\ call = <<Racer(RaceNames[1]), Racer(RaceNames[2])>>
    /\ memo = NoMemo /\ memo0 = NoMemo
    /\ args = << >> /\ env = Empty
    /\ stdin = Empty /\ lines = << >> /\ stdout = Empty /\ exit = NoExit
    /\ flags = << >> /\ mconf = NoMode /\ gres = NoGlobal
    /\ trace = << >> /\ stage = 0 /\ upstream = FALSE

\* line 323: _, err := os.Stat(memoConfigFile)
RaceStat(p) ==
    /\ pc = "race" /\ call[p].at = "stat"
    /\ LET absent == RacePath(p) \notin DOMAIN memo
           other == call[3 - p].at
       IN  call' = [call EXCEPT ![p] =
                       [@ EXCEPT !.at = IF absent THEN "create" ELSE "compare",
                                 !.seeding = absent,
                                 !.after = (other = "done"),
                                 !.overlap = (other \notin {"stat", "done"})]]
    /\ UNCHANGED <<pc, args, env, files, memo, stdin, lines, stdout, exit,
                   flags, mconf, gres, trace, stage, upstream, memo0>>

\* copyFile, lines 350-360: os.Open(src) and os.Create(dst), which makes the
\* file or empties the one that is there
RaceCreate(p) ==
    /\ pc = "race" /\ call[p].at = "create"
    /\ memo' = WriteAt(memo, RacePath(p), Truncated)
    /\ call' = [call EXCEPT ![p].at = "copy"]
    /\ UNCHANGED <<pc, args, env, files, stdin, lines, stdout, exit,
                   flags, mconf, gres, trace, stage, upstream, memo0>>

\* copyFile, lines 362-365: io.Copy and Sync. The bytes go to the start of
\* the file; when the other invocation has written in between, what remains
\* is this invocation's file or a mixture of the two that does not parse.
RaceCopy(p, mixed) ==
    /\ pc = "race" /\ call[p].at = "copy"
    /\ mixed => memo[RacePath(p)] # Truncated
    /\ memo' = WriteAt(memo, RacePath(p),
                       IF mixed THEN Garbage ELSE files[call[p].name])
    /\ call' = [call EXCEPT ![p].at = "done"]
    /\ UNCHANGED <<pc, args, env, files, stdin, lines, stdout, exit,
                   flags, mconf, gres, trace, stage, upstream, memo0>>

\* lines 329-345: the comparing branch
RaceCompare(p) ==
    /\ pc = "race" /\ call[p].at = "compare"
    /\ call' = [call EXCEPT
                   ![p].at = "done",
                   ![p].err = compareMemo(files, memo,
                                          files[call[p].name].cfg.MemoDir,
                                          call[p].name).err]
    /\ UNCHANGED <<pc, args, env, files, memo, stdin, lines, stdout, exit,
                   flags, mconf, gres, trace, stage, upstream, memo0>>

NextRace ==
    \E p \in {1, 2} :
        \/ RaceStat(p)
        \/ RaceCreate(p)
        \/ \E mixed \in BOOLEAN : RaceCopy(p, mixed)
        \/ RaceCompare(p)

SpecRace == InitRace /\ [][NextRace]_vars

\* C16: two invocations whose global configurations differ in a
\* cache-relevant field run the guard on one memo directory. There is an
\* interleaving in which both find memo.config absent, both seed and both
\* pass (C16_RaceWitness), whereas whenever the two guards do not overlap
\* the later invocation fails with the consistency error.
C16_Original ==
    \A p \in {1, 2} :
        (call[p].at = "done" /\ call[p].after) => call[p].err = "mismatch"

\* both found memo.config absent, both seeded, both passed, and the
\* directory holds one of the two configurations
C16_RaceWitness ==
    /\ \A p \in {1, 2} :
           call[p].at = "done" /\ call[p].seeding /\ call[p].err = ""
    /\ memo[RacePath(1)] \in {files[GName], files[HName]}

-----------------------------------------------------------------------------
(* Claims about failed seeding and about the configurations that pass the  *)
(* guard, under SpecMemo.                                                  *)

\* the latest call took the seeding branch and returned an error
SeedingFailed == Len(call) >= 1 /\ LastCall.seeding /\ LastCall.err # ""

\* C19 as stated: when checkMemoDir returns an error from the seeding branch
\* (copyFile failed to open the source, to create the destination, to copy
\* or to sync), no memo.config exists afterwards, so the next invocation
\* finds the directory unseeded.
C19_Original == SeedingFailed => LastPath \notin DOMAIN memo

\* C19 amended: a failed seeding leaves the memo directory as it was only
\* when copyFile failed to open the source or to create the destination.
\* When it failed while copying, an empty or partial memo.config remains;
\* when it failed at Sync, a complete copy remains; the next invocation on
\* that directory then takes the comparing branch.
C19_FailedSeeding ==
    /\ SeedingFailed =>
          /\ LastPath \notin DOMAIN memo0
          /\ LastCall.fault \in {"open", "create", "copy", "sync"}
          /\ LastCall.fault \in {"open", "create"} => memo = memo0
          /\ LastCall.fault = "copy" => memo = WriteAt(memo0, LastPath, Truncated)
          /\ LastCall.fault = "sync" =>
                memo = WriteAt(memo0, LastPath, files[LastCall.name])
    /\ (/\ Len(call) >= 2
        /\ PrevCall.seeding /\ PrevCall.fault \in {"copy", "sync"}
        /\ MemoPath(files[PrevCall.name].cfg.MemoDir) = LastPath)
       => ~LastCall.seeding

\* a seeding that failed while copying, and the next call on the directory
C19_Witness ==
    /\ Len(call) >= 2
    /\ PrevCall.seeding /\ PrevCall.fault = "copy" /\ PrevCall.err = "copy"
    /\ MemoPath(files[PrevCall.name].cfg.MemoDir) = LastPath
    /\ ~LastCall.seeding /\ LastCall.err # ""
    /\ memo[LastPath] = Truncated

PrevConfig == files[PrevCall.name].cfg

\* C20: in a sequence of invocations, one after the other, in which every
\* seeding completed, an invocation passes the guard only with a
\* configuration that configEqual does not distinguish from the one the
\* directory was seeded under (the snapshot is that invocation's file), and
\* the invocations that pass on one directory are pairwise configEqual.
C20_PassedAreEqual ==
    /\ (Len(call) >= 1 /\ LastCall.err = "") =>
          /\ LastPath \in DOMAIN memo
          /\ memo[LastPath] # Truncated =>
                /\ memo[LastPath] \in {files[n] : n \in MemoNames}
                /\ configEqual(memo[LastPath].cfg, LastConfig)
    /\ (/\ Len(call) >= 2 /\ PrevCall.err = "" /\ LastCall.err = ""
        /\ MemoPath(PrevConfig.MemoDir) = LastPath
        /\ memo[LastPath] # Truncated)
       => configEqual(PrevConfig, LastConfig)

\* the directory was seeded from one file, and a different configuration
\* that configEqual does not distinguish from it passed afterwards
C20_Witness ==
    /\ Len(call) >= 2
    /\ PrevCall.name = GName /\ PrevCall.seeding /\ PrevCall.err = ""
    /\ LastCall.name = HName /\ ~LastCall.seeding /\ LastCall.err = ""
    /\ Diff(PrevConfig, LastConfig) = {"Threads"}
    /\ memo[LastPath] = files[GName]

====
